---- MODULE Spec2Model ----
(***************************************************************************)
(* Model of youtube_dl/extractor/dailymotion.py: the Dailymotion video,   *)
(* playlist, user and cloud extractors.  One behaviour is one resolution  *)
(* call.  The site is the environment: every fetch draws the fetched page *)
(* (or a transport failure) from a small set.  Regular-expression         *)
(* searches are modelled by the fields of the fetched page they capture.  *)
(***************************************************************************)
EXTENDS Integers, Sequences, FiniteSets, TLC

\* ---------------------------------------------------------------- bounds
\* Listing pages the environment serves before the model stops exploring.
MaxPage == 3
\* Number of data-xid occurrences on one listing page.
MaxIdsPerPage == 2

\* ---------------------------------------------------------------- values
None == "None"
\* A key the JSON object does not hold, and the JSON value null.
Absent == "Absent"
Null == "null"

\* The data-xid values the site may put on a listing page.
VideoIds == {"x1", "x2"}
COOKIE == "Cookie: family_filter=off; ff=off"

\* ------------------------------------------------------- RequestBuilder
\* A request as the downloader sees it: the url and the headers it carries.
\* _download_webpage accepts a Request object or a bare url string; a bare
\* url carries no extra header.
BareUrl(url) == [url |-> url, headers |-> {}]

\* _build_request without the add_header call.
_build_request_NoCookie(url) == [url |-> url, headers |-> {}]

_build_request(url) == [url |-> url, headers |-> {COOKIE}]

\* ------------------------------------------------------------- helpers
\* utils.orderedSet: keep the first occurrence of every element.
RECURSIVE orderedSet(_)
orderedSet(s) ==
    IF s = <<>> THEN <<>>
    ELSE LET res == orderedSet(SubSeq(s, 1, Len(s) - 1))
             el  == s[Len(s)]
         IN IF \E i \in 1..Len(res) : res[i] = el THEN res ELSE Append(res, el)

\* InfoExtractor.url_result
url_result(url, ie) == [_type |-> "url", url |-> url, ie_key |-> ie]

\* list.extend at line 208
\* The new ids put in front of the accumulator.
extend_Prepend(video_ids_, found) == found \o video_ids_

extend(video_ids_, found) == video_ids_ \o found

\* The list comprehension of lines 212-213.
entries(video_ids_) ==
    LET os == orderedSet(video_ids_)
    IN [i \in 1..Len(os) |->
          url_result(<<"http://www.dailymotion.com/video/", os[i]>>, "Dailymotion")]

\* ------------------------------------------------------------ the site
SeqsUpTo(S, n) == UNION {[1..k -> S] : k \in 0..n}

Url(base, id, page) == [base |-> base, id |-> id, page |-> page]

ExtractorError(msg, expected) == [type |-> "ExtractorError", msg |-> msg, expected |-> expected]

\* _download_webpage raises ExtractorError on a network or HTTP failure.
TransportError == ExtractorError(<<"Unable to download webpage">>, FALSE)

\* _search_regex / _html_search_regex with fatal=True and no default.
RegexNotFoundError(name) == ExtractorError(<<"Unable to extract ", name>>, FALSE)

KeyError(key) == [type |-> "KeyError", key |-> key]

ValueError == [type |-> "ValueError"]

\* A listing page: the data-xid captures in document order, and whether
\* _MORE_PAGES_INDICATOR matches.
ListingPages == [xids : SeqsUpTo(VideoIds, MaxIdsPerPage), more : BOOLEAN]

\* A video page, by what the regular expressions of _real_extract capture.
PageExtras ==
    { [rta |-> FALSE, release_date |-> None, views |-> None],
      [rta |-> TRUE, release_date |-> <<"2015", "03", "06">>, views |-> "1,234"] }

VideoPages ==
    { [vevo |-> v, og_title |-> o, span_title |-> s, rta |-> e.rta,
       release_date |-> e.release_date, views |-> e.views] :
        v \in {None, "ABC123"}, o \in {None, "OG title"},
        s \in {None, "Span title"}, e \in PageExtras }

\* DailymotionIE._FORMATS
_FORMATS ==
    << <<"stream_h264_ld_url", "ld">>,
       <<"stream_h264_url", "standard">>,
       <<"stream_h264_hq_url", "hq">>,
       <<"stream_h264_hd_url", "hd">>,
       <<"stream_h264_hd1080_url", "hd180">> >>

FormatKeys == {_FORMATS[i][1] : i \in 1..Len(_FORMATS)}

PlainUrl == "http://cdn/video/123.mp4"
SizedUrl == "http://cdn/video/H264-1280x720/123.mp4"

StreamValues == {Absent, Null, PlainUrl, SizedUrl}

ErrorValues ==
    { [kind |-> "absent"],
      [kind |-> "object", title |-> "Content unavailable"],
      [kind |-> "object", title |-> Absent] }

\* The object literal of "var info = {...}," once parsed.
Descriptors ==
    [error : ErrorValues, streams : [FormatKeys -> StreamValues],
     owner : {Absent, "IGN"}, thumbnail_url : {"http://thumb"}, duration : {"74"}]

EmbedPages ==
    {[kind |-> "no_marker"], [kind |-> "bad_json"]}
        \cup {[kind |-> "info", info |-> d] : d \in Descriptors}

\* dict.get(key): None for a missing key and for a key holding null.
Get(streams, key) == IF streams[key] \in {Absent, Null} THEN None ELSE streams[key]

\* re.search(r'H264-(\d+)x(\d+)', video_url) followed by int_or_none.
Width(video_url) == IF video_url = SizedUrl THEN 1280 ELSE None

Height(video_url) == IF video_url = SizedUrl THEN 720 ELSE None

\* Lines 126-141: the formats list after the first n entries of _FORMATS.
RECURSIVE FormatsUpTo(_, _)
FormatsUpTo(streams, n) ==
    IF n = 0 THEN <<>>
    ELSE LET prev      == FormatsUpTo(streams, n - 1)
             key       == _FORMATS[n][1]
             format_id == _FORMATS[n][2]
             video_url == Get(streams, key)
         IN IF video_url /= None
            THEN Append(prev, [url |-> video_url, ext |-> "mp4", format_id |-> format_id,
                               width |-> Width(video_url), height |-> Height(video_url)])
            ELSE prev

\* The formats with the best tier first.
BuildFormats_Reversed(streams) ==
    LET f == FormatsUpTo(streams, Len(_FORMATS))
    IN [i \in 1..Len(f) |-> f[Len(f) + 1 - i]]

BuildFormats(streams) == FormatsUpTo(streams, Len(_FORMATS))



\* The subtitle listing endpoint: a transport failure, or a body.
SubtitleTracks ==
    { <<>>,
      << [language |-> "en", url |-> "http://subs/en"] >>,
      << [language |-> "en", url |-> "http://subs/en"],
         [language |-> "fr", url |-> "http://subs/fr"] >> }

SubtitleResponses ==
    {[kind |-> "transport_error"], [kind |-> "bad_json"], [kind |-> "no_total"]}
        \cup {[kind |-> "json", total |-> Len(l), list |-> l] : l \in SubtitleTracks}

\* dict((l['language'], [{'url': l['url'], 'ext': 'srt'}]) for l in info['list'])
SubLangList(list) ==
    [lang \in {list[i].language : i \in 1..Len(list)} |->
        LET last == CHOOSE i \in 1..Len(list) :
                        /\ list[i].language = lang
                        /\ \A j \in (i + 1)..Len(list) : list[j].language /= lang
        IN << [url |-> list[last].url, ext |-> "srt"] >>]

EmptyDict == [lang \in {} |-> <<>>]

Returned(value, warned) == [raised |-> FALSE, value |-> value, warned |-> warned]

Raised(exc) == [raised |-> TRUE, exc |-> exc, warned |-> <<>>]

\* DailymotionIE._get_subtitles, given what the listing fetch produced.
\* _get_subtitles without the try/except, raising when there are no subtitles.
_get_subtitles_DownloadFatal(resp) ==
    CASE resp.kind = "transport_error" -> Raised(TransportError)
      [] resp.kind = "bad_json" -> Raised(ValueError)
      [] resp.kind = "no_total" -> Raised(KeyError("total"))
      [] resp.kind = "json" /\ resp.total > 0 -> Returned(SubLangList(resp.list), <<>>)
      [] OTHER -> Raised(ExtractorError(<<"video doesn't have subtitles">>, FALSE))

_get_subtitles(resp) ==
    CASE resp.kind = "transport_error" ->
            Returned(EmptyDict, <<"unable to download video subtitles: ">>)
      [] resp.kind = "bad_json" -> Raised(ValueError)
      [] resp.kind = "no_total" -> Raised(KeyError("total"))
      [] resp.kind = "json" /\ resp.total > 0 -> Returned(SubLangList(resp.list), <<>>)
      [] OTHER -> Returned(EmptyDict, <<"video doesn't have subtitles">>)

\* utils.str_to_int: drop the separators and convert.
str_to_int(int_str) == IF int_str = None THEN None ELSE 1234

\* utils.unescapeHTML
unescapeHTML(s) == IF s = "Tom &amp; Jerry" THEN "Tom & Jerry" ELSE s

\* A playlist page: what _og_search_title finds.
PlaylistPages == [og_title : {None, "SPORT"}]

\* A user profile page: the title attribute of the nav-image anchor.
UserPages == [nav_title : {None, "Tom &amp; Jerry", "IGN"}]

\* A DailyMotion Cloud embed page.
CloudPages ==
    [title : {None, "Cloud title"},
     info : {"no_marker", "bad_json", "json"},
     mp4_url : {Absent, "http://cdn/cloud.mp4"},
     thumbnail_url : {Absent, "http://thumb"}]

Calls == {"video", "playlist", "user", "cloud"}

VIDEO_ID == "x2iuewm"

VARIABLES
    call,               \* the extractor the url was dispatched to
    writesubtitles,     \* the downloader's writesubtitles / listsubtitles parameter
    pc,                 \* the fetch the call is about to issue, or "done"
    requests,           \* every request handed to _download_webpage, in order
    warnings,           \* every report_warning, in order
    webpage,            \* DailymotionIE._real_extract: the video page
    age_limit, video_upload_date, info, formats,
    sub_list,           \* _get_subtitles: what the listing fetch produced
    pagenum, video_ids, \* _extract_entries: the loop counter and the accumulator
    pages,              \* every listing page fetched, in order
    title,              \* playlist / user title
    result              \* what the call returned or raised

vars == <<call, writesubtitles, pc, requests, warnings, webpage, age_limit,
          video_upload_date, info, formats, sub_list, pagenum, video_ids, pages,
          title, result>>

videoVars == <<webpage, age_limit, video_upload_date, info, formats, sub_list>>

\* Locals not assigned yet.
NoPage == [fetched |-> FALSE]

NoInfo == [parsed |-> FALSE]

NoSubList == [kind |-> "none"]

listVars == <<pagenum, video_ids, pages, title>>

FirstStep(c) ==
    CASE c = "video" -> "video_page"
      [] c = "playlist" -> "playlist_page"
      [] c = "user" -> "user_page"
      [] c = "cloud" -> "cloud_page"

Init ==
    /\ call \in Calls
    /\ writesubtitles \in BOOLEAN
    /\ pc = FirstStep(call)
    /\ requests = <<>>
    /\ warnings = <<>>
    /\ webpage = NoPage
    /\ age_limit = None
    /\ video_upload_date = None
    /\ info = NoInfo
    /\ formats = <<>>
    /\ sub_list = NoSubList
    /\ pagenum = 1
    /\ video_ids = <<>>
    /\ pages = <<>>
    /\ title = None
    /\ result = [type |-> "none"]

\* What a call returned: the kind of dict and the dict.
Return(kind, value) ==
    /\ pc' = "done"
    /\ result' = [type |-> kind, value |-> value]

Raise(exc) ==
    /\ pc' = "done"
    /\ result' = exc


\* ------------------------------------------------- DailymotionIE._real_extract
\* Lines 100-104: the id the Vevo link captures, None without such a link.
m_vevo_Never(page) == None

m_vevo(page) == page.vevo

\* Lines 88-113: the video page fetch, the Vevo check, age limit and date.
VideoFetchPage ==
    /\ pc = "video_page"
    /\ requests' = Append(requests,
                          _build_request(Url("https://www.dailymotion.com/video/", VIDEO_ID, 0)))
    /\ \/ /\ Raise(TransportError)
          /\ UNCHANGED videoVars
       \/ \E page \in VideoPages :
            /\ webpage' = page
            /\ UNCHANGED sub_list
            /\ IF m_vevo(page) /= None
               THEN /\ Return("url", url_result(<<"vevo:", m_vevo(page)>>, "Vevo"))
                    /\ UNCHANGED <<age_limit, video_upload_date, info, formats>>
               ELSE
                 /\ age_limit' = IF page.rta THEN 18 ELSE 0
                 /\ video_upload_date' =
                        IF page.release_date /= None
                        THEN page.release_date[1] \o page.release_date[2] \o page.release_date[3]
                        ELSE None
                 /\ pc' = "embed_page"
                 /\ UNCHANGED <<info, formats, result>>
    /\ UNCHANGED <<call, writesubtitles, warnings, listVars>>

\* Lines 123-124
SiteError_Unexpected(error) ==
    ExtractorError(<<"Couldn't get video, Dailymotion says: ", error.title>>, FALSE)

SiteError(error) ==
    ExtractorError(<<"Couldn't get video, Dailymotion says: ", error.title>>, TRUE)

\* Line 142
NoFormats_Never(formats_) == FALSE

NoFormats(formats_) == formats_ = <<>>

\* Lines 115-143: the embed page fetch, the descriptor, the formats.
VideoFetchEmbed ==
    /\ pc = "embed_page"
    /\ requests' = Append(requests,
                          _build_request(Url("https://www.dailymotion.com/embed/video/", VIDEO_ID, 0)))
    /\ \/ /\ Raise(TransportError)
          /\ UNCHANGED <<info, formats>>
       \/ \E embed_page \in EmbedPages :
            CASE embed_page.kind = "no_marker" ->
                    /\ Raise(RegexNotFoundError("video info"))
                    /\ UNCHANGED <<info, formats>>
              [] embed_page.kind = "bad_json" ->
                    /\ Raise(ValueError)
                    /\ UNCHANGED <<info, formats>>
              [] OTHER ->
                    /\ info' = embed_page.info
                    /\ IF info'.error.kind /= "absent"
                       THEN /\ IF info'.error.title = Absent
                               THEN Raise(KeyError("title"))
                               ELSE Raise(SiteError(info'.error))
                            /\ UNCHANGED formats
                       ELSE /\ formats' = BuildFormats(info'.streams)
                            /\ IF NoFormats(formats')
                               THEN Raise(ExtractorError(<<"Unable to extract video URL">>, FALSE))
                               ELSE /\ pc' = "subtitles"
                                    /\ UNCHANGED result
    /\ UNCHANGED <<call, writesubtitles, warnings, webpage, age_limit, video_upload_date,
                   sub_list, listVars>>

\* Lines 158-169
VideoInfo(title_, subtitles, view_count) ==
    [id |-> VIDEO_ID, formats |-> formats, uploader |-> info.owner,
     upload_date |-> video_upload_date, title |-> title_, subtitles |-> subtitles,
     thumbnail |-> info.thumbnail_url, age_limit |-> age_limit,
     view_count |-> view_count, duration |-> info.duration]

\* Lines 148-169, once the subtitles are there.
Assemble(subtitles, warned) ==
    LET view_warned == IF webpage.views = None
                       THEN <<"unable to extract view count">> ELSE <<>>
        view_count  == str_to_int(webpage.views)
        title_      == IF webpage.og_title /= None THEN webpage.og_title
                       ELSE webpage.span_title
    IN /\ warnings' = warnings \o warned \o view_warned
       /\ IF title_ = None
          THEN Raise(RegexNotFoundError("title"))
          ELSE IF info.owner = Absent
               THEN Raise(KeyError("owner.screenname"))
               ELSE Return("video", VideoInfo(title_, subtitles, view_count))

\* Lines 145-169: extract_subtitles (which calls _get_subtitles only when
\* subtitles were asked for), view count, title and the returned dict.
VideoFinish ==
    /\ pc = "subtitles"
    /\ IF writesubtitles
       THEN /\ requests' = Append(requests,
                    BareUrl(Url("https://api.dailymotion.com/video/%s/subtitles", VIDEO_ID, 0)))
            /\ \E resp \in SubtitleResponses :
                 LET got == _get_subtitles(resp)
                 IN /\ sub_list' = resp
                    /\ IF got.raised
                       THEN /\ Raise(got.exc)
                            /\ UNCHANGED warnings
                       ELSE Assemble(got.value, got.warned)
       ELSE /\ UNCHANGED <<requests, sub_list>>
            /\ Assemble(EmptyDict, <<>>)
    /\ UNCHANGED <<call, writesubtitles, webpage, age_limit, video_upload_date, info,
                   formats, listVars>>

\* ------------------------------------------ DailymotionPlaylistIE / UserIE
\* DailymotionPlaylistIE._PAGE_TEMPLATE and DailymotionUserIE._PAGE_TEMPLATE
_PAGE_TEMPLATE ==
    IF call = "user" THEN "http://www.dailymotion.com/user/%s/%s"
    ELSE "https://www.dailymotion.com/playlist/%s/%s"

CollectionId == IF call = "user" THEN "nqtv" ELSE "xv4bw_nqtv_sport"

\* DailymotionPlaylistIE._real_extract up to the call of _extract_entries.
PlaylistFetchPage ==
    /\ pc = "playlist_page"
    /\ requests' = Append(requests, BareUrl(Url("http://www.dailymotion.com/playlist/", CollectionId, 0)))
    /\ \/ /\ Raise(TransportError)
          /\ UNCHANGED title
       \/ \E page \in PlaylistPages :
            IF page.og_title = None
            THEN /\ Raise(RegexNotFoundError("OpenGraph title"))
                 /\ UNCHANGED title
            ELSE /\ title' = page.og_title
                 /\ pc' = "listing"
                 /\ UNCHANGED result
    /\ UNCHANGED <<call, writesubtitles, warnings, videoVars, pagenum, video_ids, pages>>

\* DailymotionUserIE._real_extract up to the call of _extract_entries.
UserFetchPage ==
    /\ pc = "user_page"
    /\ requests' = Append(requests, BareUrl(Url("https://www.dailymotion.com/user/", CollectionId, 0)))
    /\ \/ /\ Raise(TransportError)
          /\ UNCHANGED title
       \/ \E page \in UserPages :
            IF page.nav_title = None
            THEN /\ Raise(RegexNotFoundError("user"))
                 /\ UNCHANGED title
            ELSE /\ title' = unescapeHTML(page.nav_title)
                 /\ pc' = "listing"
                 /\ UNCHANGED result
    /\ UNCHANGED <<call, writesubtitles, warnings, videoVars, pagenum, video_ids, pages>>

\* Line 210: the loop goes on exactly when _MORE_PAGES_INDICATOR matches.
\* The test of line 210 with "is not None".
MorePages_Inverted(page) == ~page.more

MorePages(page) == page.more

\* One iteration of the loop of _extract_entries; on break, the return of
\* _extract_entries and of the _real_extract that called it.
ExtractEntriesStep ==
    /\ pc = "listing"
    /\ pagenum <= MaxPage
    /\ requests' = Append(requests, _build_request(Url(_PAGE_TEMPLATE, CollectionId, pagenum)))
    /\ \/ /\ Raise(TransportError)
          /\ UNCHANGED <<pagenum, video_ids, pages>>
       \/ \E page \in ListingPages :
            /\ pages' = Append(pages, page)
            /\ video_ids' = extend(video_ids, page.xids)
            /\ IF ~MorePages(page)
               THEN /\ Return("playlist", [_type |-> "playlist", id |-> CollectionId,
                                           title |-> title,
                                           entries |-> entries(video_ids')])
                    /\ UNCHANGED pagenum
               ELSE /\ pagenum' = pagenum + 1
                    /\ UNCHANGED <<pc, result>>
    /\ UNCHANGED <<call, writesubtitles, warnings, videoVars, title>>

\* ------------------------------------------ DailymotionCloudIE._real_extract
CloudExtract ==
    /\ pc = "cloud_page"
    /\ requests' = Append(requests, _build_request(Url("http://api.dmcloud.net/embed/", "cloud", 0)))
    /\ \/ Raise(TransportError)
       \/ \E page \in CloudPages :
            IF page.title = None THEN Raise(RegexNotFoundError("title"))
            ELSE IF page.info = "no_marker" THEN Raise(RegexNotFoundError("video info"))
            ELSE IF page.info = "bad_json"
                 THEN Raise(ExtractorError(<<"Failed to parse JSON">>, FALSE))
            ELSE IF page.mp4_url = Absent THEN Raise(KeyError("mp4_url"))
            ELSE Return("cloud", [id |-> "cloud", url |-> page.mp4_url,
                         title |-> page.title,
                         thumbnail |-> IF page.thumbnail_url = Absent THEN None
                                       ELSE page.thumbnail_url])
    /\ UNCHANGED <<call, writesubtitles, warnings, videoVars, listVars>>

Next ==
    \/ VideoFetchPage
    \/ VideoFetchEmbed
    \/ VideoFinish
    \/ PlaylistFetchPage
    \/ UserFetchPage
    \/ ExtractEntriesStep
    \/ CloudExtract

Spec == Init /\ [][Next]_vars


\* ================================================================ claims
Range(f) == {f[i] : i \in DOMAIN f}

\* All data-xid occurrences of the first n fetched listing pages, in fetch order.
RECURSIVE Occurrences(_)
Occurrences(n) == IF n = 0 THEN <<>> ELSE Occurrences(n - 1) \o pages[n].xids

FirstOccurrence(seq, x) == CHOOSE i \in 1..Len(seq) : seq[i] = x /\ \A j \in 1..(i - 1) : seq[j] /= x

EntryId(entry) == entry.url[2]

Enumerated == pc = "done" /\ result.type = "playlist"

ListingRequests == SelectSeq(requests, LAMBDA r : r.url.page > 0)

\* C1: the entries returned by _extract_entries hold every video id found on a
\* fetched listing page exactly once, ordered by the first occurrence of each
\* id across the pages in fetch order.
C1_EntriesDedupFirstSeen ==
    Enumerated =>
        LET occ == Occurrences(Len(pages))
            e   == result.value.entries
        IN /\ {EntryId(e[i]) : i \in 1..Len(e)} = Range(occ)
           /\ \A i, j \in 1..Len(e) : i /= j => EntryId(e[i]) /= EntryId(e[j])
           /\ \A i, j \in 1..Len(e) :
                i < j => FirstOccurrence(occ, EntryId(e[i])) < FirstOccurrence(occ, EntryId(e[j]))
           /\ \A i \in 1..Len(e) :
                e[i] = url_result(<<"http://www.dailymotion.com/video/", EntryId(e[i])>>, "Dailymotion")

\* Two pages, page 2 opens with an id that page 1 held second, and both ids are returned.
C1_Witness ==
    /\ Enumerated
    /\ Len(pages) = 2
    /\ Len(pages[1].xids) = 2
    /\ pages[1].xids[1] /= pages[1].xids[2]
    /\ Len(pages[2].xids) >= 1
    /\ pages[2].xids[1] = pages[1].xids[2]
    /\ Len(result.value.entries) = 2

\* C2: listing pages are fetched in the order 1, 2, 3, ..., each once; every
\* fetched page but the last carries the next-page marker; a fetched page
\* without the marker ends the enumeration at once, with its ids in the result;
\* and the enumeration returns only at such a page.
C2_StopsAtFirstPageWithoutMarker ==
    LET L == ListingRequests
        k == Len(pages)
    IN /\ \A i \in 1..Len(L) : L[i].url.page = i
       /\ Len(L) \in {k, k + 1}
       /\ \A i \in 1..(k - 1) : pages[i].more
       /\ (k > 0 /\ ~pages[k].more) =>
            /\ Enumerated
            /\ Len(L) = k
            /\ Range(pages[k].xids) \subseteq {EntryId(result.value.entries[i]) : i \in 1..Len(result.value.entries)}
       /\ Enumerated => (k > 0 /\ ~pages[k].more)
       /\ (k > 0 /\ pages[k].more /\ pc = "done") => (Len(L) = k + 1 /\ result = TransportError)
       /\ (pc = "listing") => (pagenum = k + 1 /\ Len(L) = k)

\* The enumeration ended at page 3, which lacks the marker and holds an id.
C2_Witness ==
    /\ Enumerated
    /\ Len(pages) = 3
    /\ pages[3].xids /= <<>>
    /\ Len(ListingRequests) = 3

\* C3: the enumeration is guarded against a marker that never goes away: once
\* MaxPage listing pages have been fetched, every one of them carrying the
\* next-page marker, the loop has stopped and asks for no further page.
C3_EnumerationIsCapped ==
    (Len(pages) = MaxPage /\ \A i \in 1..Len(pages) : pages[i].more) => pc = "done"

VideoPageFetched == call = "video" /\ webpage /= NoPage

DescriptorParsed == call = "video" /\ info /= NoInfo

SubtitleRequests == SelectSeq(requests, LAMBDA r : r.url.base = "https://api.dailymotion.com/video/%s/subtitles")

\* C4: a video page with a Vevo player link for id X makes the call return a
\* delegation to vevo:X, never a video record, with no fetch after the video
\* page fetch.
C4_VevoDelegationShortCircuits ==
    (VideoPageFetched /\ webpage.vevo /= None) =>
        /\ pc = "done"
        /\ result = [type |-> "url", value |-> url_result(<<"vevo:", webpage.vevo>>, "Vevo")]
        /\ Len(requests) = 1
        /\ info = NoInfo
        /\ sub_list = NoSubList

C4_Witness ==
    /\ VideoPageFetched
    /\ webpage.vevo = "ABC123"
    /\ writesubtitles
    /\ result.type = "url"

TitledError == DescriptorParsed /\ info.error.kind = "object" /\ info.error.title /= Absent

NoTierUrl == \A k \in FormatKeys : Get(info.streams, k) = None

\* C6: a returned video record has at least one format; a descriptor without an
\* error and without a url under any quality-tier key makes the call fail with
\* an ExtractorError before the subtitle fetch and before the view count and
\* title are looked for.
C6_FormatsNonEmpty ==
    /\ result.type = "video" => Len(result.value.formats) >= 1
    /\ (DescriptorParsed /\ info.error.kind = "absent" /\ NoTierUrl) =>
         /\ pc = "done"
         /\ result = ExtractorError(<<"Unable to extract video URL">>, FALSE)
         /\ SubtitleRequests = <<>>
         /\ Len(requests) = 2
         /\ warnings = <<>>

\* No tier url, on a page where subtitles are asked for and neither view count nor title exists.
C6_Witness ==
    /\ DescriptorParsed
    /\ info.error.kind = "absent"
    /\ NoTierUrl
    /\ writesubtitles
    /\ webpage.views = None
    /\ webpage.og_title = None
    /\ webpage.span_title = None
    /\ pc = "done"

FormatsBuilt == DescriptorParsed /\ info.error.kind = "absent" /\ (pc = "subtitles" \/ result.type = "video")

TierIndex(format_id) == CHOOSE n \in 1..Len(_FORMATS) : _FORMATS[n][2] = format_id

\* The formats are in tier order, one for each key of Keys and no other, each
\* with the url the descriptor holds under its key.
OneFormatPerKey(Keys) ==
    /\ \A i, j \in 1..Len(formats) :
         i < j => TierIndex(formats[i].format_id) < TierIndex(formats[j].format_id)
    /\ {_FORMATS[TierIndex(formats[i].format_id)][1] : i \in 1..Len(formats)} = Keys
    /\ \A i \in 1..Len(formats) :
         formats[i].url = info.streams[_FORMATS[TierIndex(formats[i].format_id)][1]]

\* C7 as stated: one format for every quality-tier key the descriptor holds.
C7_OneFormatPerPresentKey ==
    FormatsBuilt => OneFormatPerKey({k \in FormatKeys : info.streams[k] /= Absent})

\* C7: the formats hold exactly one format for every quality-tier key whose
\* value in the descriptor is not null, in the fixed tier order, whatever the
\* sizes read from the urls.
C7_OneFormatPerNonNullKey ==
    FormatsBuilt => OneFormatPerKey({k \in FormatKeys : info.streams[k] \notin {Absent, Null}})

\* A sized url in a lower tier than a plain one, a null key and a missing key.
C7_Witness ==
    /\ FormatsBuilt
    /\ result.type = "video"
    /\ Len(formats) = 3
    /\ info.streams["stream_h264_ld_url"] = PlainUrl
    /\ info.streams["stream_h264_url"] = SizedUrl
    /\ info.streams["stream_h264_hq_url"] = Null
    /\ info.streams["stream_h264_hd_url"] = Absent
    /\ info.streams["stream_h264_hd1080_url"] = PlainUrl

SubtitlesAsked == call = "video" /\ pc = "done" /\ sub_list /= NoSubList

OtherStepsSucceed ==
    /\ (webpage.og_title /= None \/ webpage.span_title /= None)
    /\ info.owner /= Absent

NoSubtitles == sub_list.kind = "transport_error" \/ (sub_list.kind = "json" /\ sub_list.total = 0)

\* C8: a transport failure of the subtitle listing fetch, and a listing with
\* total 0, raise nothing: a warning is reported, the subtitles are the empty
\* mapping, and the call returns the video record when title and uploader are
\* there.
C8_NoSubtitlesIsNonFatal ==
    (SubtitlesAsked /\ NoSubtitles) =>
        /\ Len(warnings) >= 1
        /\ warnings[1] = IF sub_list.kind = "transport_error"
                         THEN "unable to download video subtitles: "
                         ELSE "video doesn't have subtitles"
        /\ result.type \in {"video", "ExtractorError", "KeyError"}
        /\ result.type = "ExtractorError" => result = RegexNotFoundError("title")
        /\ result.type = "KeyError" => result = KeyError("owner.screenname")
        /\ OtherStepsSucceed => (result.type = "video" /\ DOMAIN result.value.subtitles = {})

C8_Witness ==
    /\ SubtitlesAsked
    /\ sub_list.kind = "transport_error"
    /\ OtherStepsSucceed
    /\ result.type = "video"

\* The same with a listing of total 0.
C8_WitnessTotalZero ==
    /\ SubtitlesAsked
    /\ sub_list.kind = "json"
    /\ sub_list.total = 0
    /\ result.type = "video"

\* C9: a subtitle listing that was fetched but is not JSON, or lacks the total
\* field, does not abort the call: the video record is returned with empty
\* subtitles and a warning.
C9_SubtitleParseFailureIsNonFatal ==
    (SubtitlesAsked /\ sub_list.kind \in {"bad_json", "no_total"} /\ OtherStepsSucceed) =>
        /\ result.type = "video"
        /\ DOMAIN result.value.subtitles = {}
        /\ Len(warnings) >= 1

ViaRequestBuilder ==
    { "https://www.dailymotion.com/video/",
      "https://www.dailymotion.com/embed/video/",
      "https://www.dailymotion.com/playlist/%s/%s",
      "http://www.dailymotion.com/user/%s/%s",
      "http://api.dmcloud.net/embed/" }

\* C10 as stated: every request handed to the downloader carries the cookie.
C10_EveryFetchCarriesCookie ==
    \A i \in 1..Len(requests) : COOKIE \in requests[i].headers

\* C10: the requests for the video page, the embed page, the playlist and user
\* listing pages and the cloud embed page carry the family-filter cookie; the
\* subtitle listing, the playlist page and the user profile page are fetched by
\* bare url, without it.
C10_BuiltRequestsCarryCookie ==
    \A i \in 1..Len(requests) :
        IF requests[i].url.base \in ViaRequestBuilder
        THEN requests[i].headers = {COOKIE}
        ELSE requests[i].headers = {}

C10_Witness ==
    /\ call = "user"
    /\ pc = "done"
    /\ Len(requests) = 3
    /\ requests[1].headers = {}
    /\ requests[3].headers = {COOKIE}

====
